---- MODULE Spec2Model ----
(***************************************************************************)
(* Model of the tkinter Snake game (src/main.py): the SnakeGame object's   *)
(* fields, the timer callback _game_loop and the key callback              *)
(* _handle_keypress, as the Tk main loop dispatches them one at a time.    *)
(*                                                                         *)
(* Positions are pixel coordinates <<x, y>>, multiples of TILE_SIZE, as in *)
(* the source.  The board is scaled down from the source's 25 x 25 tiles   *)
(* (COLS, ROWS) and the start tile from 5 (START_TILE) so that the whole   *)
(* state space, a completely filled board included, can be enumerated.     *)
(***************************************************************************)
EXTENDS Integers, Sequences, FiniteSets

\* snake_head .. score: the fields of SnakeGame (main.py:112-118)
\* pc:    where the single thread is: "mainloop" between two callbacks, or
\*        "generate_food" inside the while-loop of _generate_food (main.py:122)
\*        that a consumption entered with no tile left to accept
\* event: the callback the main loop ran last: "init" (none yet), "timer"
\*        (_game_loop, main.py:287), "key" (_handle_keypress, main.py:95) or
\*        "restart" (_handle_keypress when it called _reset_game, main.py:137)
\* config:   the values of the GameConfig that self.config holds (main.py:70)
\* steering: whether the player still sends key events
VARIABLES snake_head, snake_body, food, direction, game_over, score, pc, event,
          config, steering

vars == <<snake_head, snake_body, food, direction, game_over, score, pc, event,
          config, steering>>

\* what no callback assigns
environment == <<config, steering>>

\* the fields of SnakeGame that _reset_game sets
game_state == <<snake_head, snake_body, food, direction, game_over, score>>

----------------------------------------------------------------------------
\* Bounds of the model

\* board width in tiles (GameConfig.COLS is 25 in the source)
COLS == 3

\* board height in tiles (GameConfig.ROWS is 25 in the source)
ROWS == 3

\* tile index of the start position (5 in _reset_game)
START_TILE == 1

\* largest value tried for COLS, ROWS and TILE_SIZE when the game is
\* constructed with an arbitrary GameConfig
MaxConfigValue == 3

\* longest body for which a further consumption is explored
MaxBody == 9

----------------------------------------------------------------------------
\* GameConfig

TILE_SIZE == 25

WINDOW_WIDTH == COLS * TILE_SIZE

WINDOW_HEIGHT == ROWS * TILE_SIZE

\* the GameConfig of the game that is played
GameConfig == [COLS |-> COLS, ROWS |-> ROWS, TILE_SIZE |-> TILE_SIZE]

----------------------------------------------------------------------------
\* Direction

None == "None"

Directions == {"UP", "DOWN", "LEFT", "RIGHT"}

\* Direction.value
Value(d) ==
  CASE d = "UP" -> <<0, -1>>
    [] d = "DOWN" -> <<0, 1>>
    [] d = "LEFT" -> <<-1, 0>>
    [] d = "RIGHT" -> <<1, 0>>

\* the keysyms the key handler is driven with: the eight mapped keys, space,
\* and one key that is in no table
Keysyms == {"Up", "Down", "Left", "Right", "w", "s", "a", "d", "space", "Escape"}

\* key_to_direction.get(event.keysym)
key_to_direction(keysym) ==
  CASE keysym \in {"Up", "w"} -> "UP"
    [] keysym \in {"Down", "s"} -> "DOWN"
    [] keysym \in {"Left", "a"} -> "LEFT"
    [] keysym \in {"Right", "d"} -> "RIGHT"
    [] OTHER -> None

opposite_directions(d) ==
  CASE d = "UP" -> "DOWN"
    [] d = "DOWN" -> "UP"
    [] d = "LEFT" -> "RIGHT"
    [] d = "RIGHT" -> "LEFT"

----------------------------------------------------------------------------
\* Tiles and the pure helpers of SnakeGame

Range(s) == {s[i] : i \in 1..Len(s)}

\* every value random.randint(0, COLS-1) * TILE_SIZE, random.randint(0, ROWS-1) * TILE_SIZE
\* can produce
BoardTiles == {<<c * TILE_SIZE, r * TILE_SIZE>> : c \in 0..(COLS - 1), r \in 0..(ROWS - 1)}

\* mutation: the candidate is compared with the head only
GenerateFoodIgnoringBody(head, body) == {t \in BoardTiles : t # head}

\* mutation: the candidate is compared with the body only
GenerateFoodIgnoringHead(head, body) == {t \in BoardTiles : t \notin Range(body)}

\* the tiles _generate_food can return: the candidates that pass the test
\* "food != self.snake_head and food not in self.snake_body".  The set is
\* empty exactly when the while-loop has no exit.
GenerateFood(head, body) == {t \in BoardTiles : t # head /\ t \notin Range(body)}

\* mutation: every direction change is accepted
IsValidDirectionChangeAlways(cur, new_direction) == TRUE

IsValidDirectionChange(cur, new_direction) ==
  IF cur = None THEN TRUE
  ELSE new_direction # opposite_directions(cur)

\* mutation: off by one on the far edges
CheckWallCollisionOffByOne(head) ==
  \/ head[1] < 0
  \/ head[1] > WINDOW_WIDTH
  \/ head[2] < 0
  \/ head[2] > WINDOW_HEIGHT

\* mutation: the near edges are tested with <= instead of <
CheckWallCollisionNearEdge(head) ==
  \/ head[1] <= 0
  \/ head[1] >= WINDOW_WIDTH
  \/ head[2] <= 0
  \/ head[2] >= WINDOW_HEIGHT

CheckWallCollision(head) ==
  \/ head[1] < 0
  \/ head[1] >= WINDOW_WIDTH
  \/ head[2] < 0
  \/ head[2] >= WINDOW_HEIGHT

\* mutation: the segment next to the head's old position is the only one tested
CheckSelfCollisionFirstOnly(head, body) == body # <<>> /\ head = body[1]

CheckSelfCollision(head, body) == head \in Range(body)

\* mutation: only the x coordinates are compared
CheckFoodCollisionXOnly(head, f) == head[1] = f[1]

\* mutation: the tiles are compared by identity (no Tile.__eq__), and the
\* head is never the food object
CheckFoodCollisionByIdentity(head, f) == FALSE

CheckFoodCollision(head, f) == head = f

\* the loop "for i in range(len(body) - 1, -1, -1)", with the body indexed
\* from 1: the segments are overwritten in place, last one first
RECURSIVE MoveBodySegments(_, _, _)
MoveBodySegments(body, head, i) ==
  IF i < 1 THEN body
  ELSE MoveBodySegments([body EXCEPT ![i] = IF i = 1 THEN head ELSE body[i - 1]],
                        head, i - 1)

\* mutation: the segments are overwritten first one first, so that each one
\* reads the value just written to its predecessor
RECURSIVE MoveBodySegmentsForward(_, _, _)
MoveBodySegmentsForward(body, head, i) ==
  IF i > Len(body) THEN body
  ELSE MoveBodySegmentsForward([body EXCEPT ![i] = IF i = 1 THEN head ELSE body[i - 1]],
                               head, i + 1)

ShiftBodyForward(body, head) == MoveBodySegmentsForward(body, head, 1)

\* mutation: the loop stops before index 0 (range(len(body) - 1, 0, -1)), so
\* the first segment never takes the head's position
ShiftBodyStoppingEarly(body, head) ==
  [i \in 1..Len(body) |-> IF i = 1 THEN body[1] ELSE body[i - 1]]

\* mutation: the head's position is inserted in front and no segment is removed
ShiftBodyWithoutPop(body, head) == <<head>> \o body

ShiftBody(body, head) == MoveBodySegments(body, head, Len(body))

\* mutation: dx and dy are exchanged
MoveHeadSwapped(head, d) ==
  <<head[1] + Value(d)[2] * TILE_SIZE, head[2] + Value(d)[1] * TILE_SIZE>>

MoveHead(head, d) ==
  <<head[1] + Value(d)[1] * TILE_SIZE, head[2] + Value(d)[2] * TILE_SIZE>>

\* _update_snake_position, as the pair <<head, body>> it leaves
UpdateSnakePosition(head, body, d) ==
  IF d = None THEN <<head, body>>
  ELSE <<MoveHead(head, d), ShiftBody(body, head)>>

\* mutation: the new segment is put next to the head
GrowBodyAtFront(body, f) == <<f>> \o body

\* self.snake_body.append(Tile(self.food.x, self.food.y))
GrowBody(body, f) == Append(body, f)

----------------------------------------------------------------------------
\* Construction

StartHead == <<START_TILE * TILE_SIZE, START_TILE * TILE_SIZE>>

\* mutation: the assignment to self.direction is missing
ResetGameKeepingDirection ==
  /\ snake_head' = StartHead
  /\ snake_body' = <<>>
  /\ food' \in GenerateFood(StartHead, <<>>)
  /\ game_over' = FALSE
  /\ score' = 0
  /\ UNCHANGED direction

\* _reset_game: the values it gives the fields
ResetGame ==
  /\ snake_head' = StartHead
  /\ snake_body' = <<>>
  /\ food' \in GenerateFood(StartHead, <<>>)
  /\ direction' = None
  /\ game_over' = FALSE
  /\ score' = 0

Init ==
  /\ snake_head = StartHead
  /\ snake_body = <<>>
  /\ food \in GenerateFood(StartHead, <<>>)
  /\ direction = None
  /\ game_over = FALSE
  /\ score = 0
  /\ pc = "mainloop"
  /\ event = "init"
  /\ config = GameConfig
  /\ steering = TRUE

----------------------------------------------------------------------------
\* The timer callback

\* _handle_food_consumption, entered with the moved head and the shifted body.
\* When no tile passes the test of _generate_food the call does not return:
\* the callback stays inside the while-loop, after the append and before the
\* assignments to food and score.
HandleFoodConsumption(head, body) ==
  LET grown == GrowBody(body, food) IN
  /\ Len(body) < MaxBody
  /\ snake_head' = head
  /\ snake_body' = grown
  /\ IF GenerateFood(head, grown) = {}
       THEN pc' = "generate_food" /\ UNCHANGED <<food, score>>
       ELSE /\ food' \in GenerateFood(head, grown)
            /\ score' = score + 1
            /\ pc' = pc
  /\ UNCHANGED <<direction, game_over>>

\* _update_game_state after its game_over test: move, then the collision
\* tests, then the food test
MoveAndResolve ==
  LET moved == UpdateSnakePosition(snake_head, snake_body, direction)
      head == moved[1]
      body == moved[2]
  IN IF CheckWallCollision(head) \/ CheckSelfCollision(head, body)
       THEN /\ snake_head' = head
            /\ snake_body' = body
            /\ game_over' = TRUE
            /\ UNCHANGED <<food, direction, score, pc>>
       ELSE IF CheckFoodCollision(head, food)
              THEN HandleFoodConsumption(head, body)
              ELSE /\ snake_head' = head
                   /\ snake_body' = body
                   /\ UNCHANGED <<food, direction, game_over, score, pc>>

\* mutation: the test of game_over at the top is missing
UpdateGameStateUnguarded == MoveAndResolve

UpdateGameState ==
  IF game_over THEN UNCHANGED <<game_state, pc>>
  ELSE MoveAndResolve

\* _game_loop: the drawing calls change no field; window.after schedules the
\* next call, so the callback can always run again
GameLoop ==
  /\ pc = "mainloop"
  /\ event' = "timer"
  /\ UpdateGameState
  /\ UNCHANGED environment

\* one more iteration of the while-loop of _generate_food that no candidate
\* has left yet
GenerateFoodRetry ==
  /\ pc = "generate_food"
  /\ \E candidate \in BoardTiles :
       IF candidate \in GenerateFood(snake_head, snake_body)
         THEN /\ food' = candidate
              /\ score' = score + 1
              /\ pc' = "mainloop"
              /\ UNCHANGED <<snake_head, snake_body, direction, game_over, event>>
              /\ UNCHANGED environment
         ELSE UNCHANGED vars

----------------------------------------------------------------------------
\* The key callback

\* the last statement of _handle_keypress, with the direction that the
\* lookup of the keysym gave (None for a key that is not in the table)
ChangeDirection(new_direction) ==
  IF new_direction # None /\ IsValidDirectionChange(direction, new_direction)
    THEN /\ direction' = new_direction
         /\ UNCHANGED <<snake_head, snake_body, food, game_over, score>>
    ELSE UNCHANGED game_state

\* _handle_keypress
HandleKeypress(keysym) ==
  /\ pc = "mainloop"
  /\ event' = IF game_over /\ keysym = "space" THEN "restart" ELSE "key"
  /\ pc' = pc
  /\ UNCHANGED environment
  /\ IF game_over
       THEN IF keysym = "space" THEN ResetGame ELSE UNCHANGED game_state
       ELSE ChangeDirection(key_to_direction(keysym))

KeyPress == \E keysym \in Keysyms : HandleKeypress(keysym)

----------------------------------------------------------------------------

Next == GameLoop \/ KeyPress \/ GenerateFoodRetry

Spec == Init /\ [][Next]_vars

TypeOK ==
  /\ snake_head[1] \in {c * TILE_SIZE : c \in -1..COLS}
  /\ snake_head[2] \in {r * TILE_SIZE : r \in -1..ROWS}
  /\ food \in BoardTiles
  /\ direction \in Directions \cup {None}
  /\ game_over \in BOOLEAN
  /\ score \in 0..(COLS * ROWS)
  /\ pc \in {"mainloop", "generate_food"}
  /\ event \in {"init", "timer", "key", "restart"}
  /\ config = GameConfig
  /\ steering \in BOOLEAN

----------------------------------------------------------------------------
\* The game with a player who stops steering at some point

\* the player lets go of the keys: no key event is dispatched from now on
Release ==
  /\ pc = "mainloop"
  /\ steering
  /\ steering' = FALSE
  /\ UNCHANGED <<game_state, pc, event, config>>

SteeredKeyPress == steering /\ KeyPress

NextUnsteered == GameLoop \/ SteeredKeyPress \/ GenerateFoodRetry \/ Release

\* window.after(GAME_SPEED, self._game_loop) at the end of every _game_loop
\* schedules the next one: while the main loop is idle the timer callback
\* runs again
SpecUnsteered == Init /\ [][NextUnsteered]_vars /\ WF_vars(GameLoop)

----------------------------------------------------------------------------
\* Construction with an arbitrary GameConfig: SnakeGame.__init__ step by step,
\* for configurations that need not be valid.  The class validates nothing,
\* so what happens is what the statements of __init__ do with the values.

\* the value of a field that has not been assigned yet
Unset == "unset"

ConfigValues == -1..MaxConfigValue

\* the tiles the two random.randint calls of _generate_food can produce
TilesOf(cfg) ==
  {<<c * cfg.TILE_SIZE, r * cfg.TILE_SIZE>> : c \in 0..(cfg.COLS - 1), r \in 0..(cfg.ROWS - 1)}

\* the first two assignments of _reset_game
StartHeadOf(cfg) == <<START_TILE * cfg.TILE_SIZE, START_TILE * cfg.TILE_SIZE>>

\* _center_window passes "WIDTHxHEIGHT+x+y" to window.geometry; Tk parses
\* width and height as unsigned numbers and raises TclError on a minus sign
GeometryRaises(cfg) ==
  cfg.COLS * cfg.TILE_SIZE < 0 \/ cfg.ROWS * cfg.TILE_SIZE < 0

\* random.randint(0, n - 1) raises ValueError on an empty range
RandintRaises(cfg) == cfg.COLS - 1 < 0 \/ cfg.ROWS - 1 < 0

InitConfig ==
  /\ config \in [COLS : ConfigValues, ROWS : ConfigValues, TILE_SIZE : ConfigValues]
  /\ pc = "construct"
  /\ event = "init"
  /\ steering = TRUE
  /\ snake_head = Unset
  /\ snake_body = Unset
  /\ food = Unset
  /\ direction = Unset
  /\ game_over = Unset
  /\ score = Unset

\* _setup_window raises before _reset_game is called
ConstructGeometryError ==
  /\ pc = "construct"
  /\ GeometryRaises(config)
  /\ pc' = "TclError"
  /\ UNCHANGED <<game_state, event, environment>>

\* _reset_game has assigned head and body; _generate_food raises
ConstructRandintError ==
  /\ pc = "construct"
  /\ ~GeometryRaises(config)
  /\ RandintRaises(config)
  /\ pc' = "ValueError"
  /\ snake_head' = StartHeadOf(config)
  /\ snake_body' = <<>>
  /\ UNCHANGED <<food, direction, game_over, score, event, environment>>

\* _reset_game has assigned head and body; no candidate of _generate_food
\* differs from the head, so its while-loop has no exit
ConstructHangs ==
  /\ pc = "construct"
  /\ ~GeometryRaises(config)
  /\ ~RandintRaises(config)
  /\ TilesOf(config) \ {StartHeadOf(config)} = {}
  /\ pc' = "generate_food"
  /\ snake_head' = StartHeadOf(config)
  /\ snake_body' = <<>>
  /\ UNCHANGED <<food, direction, game_over, score, event, environment>>

\* __init__ returns and run() enters the main loop: ticks and key events
\* are dispatched from now on
ConstructStarts ==
  /\ pc = "construct"
  /\ ~GeometryRaises(config)
  /\ ~RandintRaises(config)
  /\ snake_head' = StartHeadOf(config)
  /\ snake_body' = <<>>
  /\ food' \in TilesOf(config) \ {StartHeadOf(config)}
  /\ direction' = None
  /\ game_over' = FALSE
  /\ score' = 0
  /\ pc' = "mainloop"
  /\ UNCHANGED <<event, environment>>

NextConfig ==
  ConstructGeometryError \/ ConstructRandintError \/ ConstructHangs \/ ConstructStarts

SpecConfig == InitConfig /\ [][NextConfig]_vars

----------------------------------------------------------------------------
\* Vocabulary of the properties

\* a step that is one complete call of _game_loop, or the part of one that
\* runs up to the while-loop of _generate_food
TickStep == pc = "mainloop" /\ event' = "timer"

Last(s) == s[Len(s)]

NoDuplicates(s) == \A i, j \in 1..Len(s) : i # j => s[i] # s[j]

OutOfBounds(p) ==
  \/ p[1] < 0
  \/ p[1] >= COLS * TILE_SIZE
  \/ p[2] < 0
  \/ p[2] >= ROWS * TILE_SIZE

Occupied == {snake_head} \cup Range(snake_body)

FoodOffSnake == food \in BoardTiles /\ food \notin Occupied

IsOpposite(d, e) ==
  \/ d = "UP" /\ e = "DOWN"
  \/ d = "DOWN" /\ e = "UP"
  \/ d = "LEFT" /\ e = "RIGHT"
  \/ d = "RIGHT" /\ e = "LEFT"

----------------------------------------------------------------------------
\* C1 (as stated): in every state between callbacks in which game_over is
\* false, the head and the body segments are at pairwise different positions.
C1_NoOverlapWhileAlive ==
  (pc = "mainloop" /\ ~game_over) => NoDuplicates(<<snake_head>> \o snake_body)

\* C1 (amended): while game_over is false the body segments are at pairwise
\* different positions and the head is on none of them except possibly the
\* last one; the head is on the last body segment only from the tick that
\* appended that segment (at the food tile the head had just reached) until
\* the snake moves again.
C1_OverlapOnlyAtAppendedSegment ==
  /\ [](~game_over =>
          /\ NoDuplicates(snake_body)
          /\ \A i \in 1..(Len(snake_body) - 1) : snake_body[i] # snake_head)
  /\ [][(~game_over' /\ snake_body' # <<>> /\ snake_head' = Last(snake_body'))
          => \/ TickStep /\ snake_head' = food /\ Len(snake_body') = Len(snake_body) + 1
             \/ UNCHANGED <<snake_head, snake_body>>]_vars

\* a tick has just appended a third segment under the head of a living snake
C1_Witness ==
  /\ ~game_over
  /\ event = "timer"
  /\ Len(snake_body) = 3
  /\ snake_head = Last(snake_body)
  /\ NoDuplicates(snake_body)

\* C2: whatever key events arrive between two ticks, a moving tick never
\* takes the head back to the position the first body segment held before
\* that tick (the snake does not reverse into its neck).
C2_NeverReversesIntoNeck ==
  [][(TickStep /\ ~game_over /\ snake_body # <<>> /\ snake_head' # snake_head)
       => snake_head' # snake_body[1]]_vars

\* C3: while game_over is false, a request for a direction sets direction to
\* it when direction is unset or the request is not the exact opposite of
\* direction, and leaves direction as it is when the request is the opposite.
C3_DirectionRequest ==
  [][(pc = "mainloop" /\ event' = "key" /\ ~game_over)
       => \A d \in Directions :
            ChangeDirection(d)
              => direction' = IF direction = None \/ ~IsOpposite(direction, d)
                                THEN d
                                ELSE direction]_vars

\* a key event has been handled while a snake with a body was moving
C3_Witness ==
  /\ event = "key"
  /\ ~game_over
  /\ direction \in Directions
  /\ snake_body # <<>>

\* C4: whenever food is placed (construction, restart, consumption) it is on
\* a board tile that is neither the head nor a body segment, the segment
\* appended by the consumption included.
C4_FoodPlacedOffSnake ==
  /\ FoodOffSnake
  /\ [][(\/ game_over /\ ~game_over'
         \/ score' = score + 1
         \/ food' # food) => FoodOffSnake']_vars

\* food has just been placed after the second consumption
C4_Witness ==
  /\ event = "timer"
  /\ pc = "mainloop"
  /\ score = 2
  /\ Len(snake_body) = 2
  /\ snake_head = Last(snake_body)
  /\ food \notin Occupied

\* C5: food placement terminates: the timer callback is never inside the
\* loop of _generate_food with no tile left that the loop accepts.
C5_FoodPlacementTerminates ==
  ~(pc = "generate_food" /\ GenerateFood(snake_head, snake_body) = {})

\* C6: a tick of a living, moving snake that takes the head outside the board
\* ends with game_over true.
C6_WallCollisionEndsGame ==
  [][(TickStep /\ ~game_over /\ direction \in Directions /\ OutOfBounds(snake_head'))
       => game_over']_vars

\* the head is outside the board after a tick
C6_Witness == event = "timer" /\ game_over /\ OutOfBounds(snake_head)

\* C7: a tick after whose body shift and head move the head is on a body
\* segment ends with game_over true.
C7_SelfCollisionEndsGame ==
  [][(TickStep /\ ~game_over /\ direction \in Directions
        /\ snake_head' \in Range(SubSeq(snake_body', 1, Len(snake_body))))
       => game_over']_vars

\* the head is on a body segment, inside the board, after a tick
C7_Witness ==
  /\ event = "timer"
  /\ game_over
  /\ ~OutOfBounds(snake_head)
  /\ snake_head \in Range(snake_body)

\* C8: once game_over is true, every step (a tick, a direction request, any
\* other key) leaves head, body, food, direction, score and game_over as they
\* are, except the handling of the restart key, which is the only step that
\* makes game_over false again.
C8_GameOverTerminal ==
  [][game_over =>
       \/ UNCHANGED game_state
       \/ ~TickStep /\ ~game_over' /\ HandleKeypress("space")]_vars

\* a key event has been handled after the game ended and the game is still over
C8_Witness == game_over /\ event = "key" /\ score >= 1

\* C9: a tick while direction is unset leaves head, body, score and game_over
\* unchanged, wherever the food is.
C9_TickWithoutDirection ==
  [][(TickStep /\ direction = None)
       => UNCHANGED <<snake_head, snake_body, score, game_over>>]_vars

\* a tick has run while direction is unset
C9_Witness ==
  /\ event = "timer"
  /\ direction = None
  /\ snake_head = StartHead
  /\ snake_body = <<>>

\* C10: a tick that moves the head onto the food without a collision, and
\* returns, leaves a body one segment longer whose last segment is at the
\* former food position, a score one higher, and food on a board tile that is
\* neither the head nor a body segment.
C10_Consumption ==
  [][(TickStep /\ ~game_over /\ direction \in Directions
        /\ snake_head' = food /\ ~game_over' /\ pc' = "mainloop")
       => /\ Len(snake_body') = Len(snake_body) + 1
          /\ Last(snake_body') = food
          /\ score' = score + 1
          /\ food' # food
          /\ FoodOffSnake']_vars

\* a snake with a body has just eaten: its new last segment is under the head
C10_Witness ==
  /\ event = "timer"
  /\ pc = "mainloop"
  /\ ~game_over
  /\ score = 4
  /\ Len(snake_body) = 4
  /\ snake_head = Last(snake_body)

\* C11: between restarts the number of body segments never decreases; it
\* changes only on a tick, only by exactly +1, and only when that tick puts
\* the head on the food position; every other step leaves it unchanged.
C11_BodyLengthGrowsByOneOnFood ==
  [][\/ Len(snake_body') = Len(snake_body)
     \/ event' = "restart"
     \/ /\ TickStep
        /\ ~game_over
        /\ Len(snake_body') = Len(snake_body) + 1
        /\ snake_head' = food]_vars

\* a tick without consumption has moved a living snake that had grown before
C11_Witness ==
  /\ event = "timer"
  /\ ~game_over
  /\ Len(snake_body) = 2
  /\ snake_head \notin Range(snake_body)
  /\ score = 2

\* the state of a game that has just been constructed
FreshGame ==
  /\ snake_head = StartHead
  /\ snake_body = <<>>
  /\ score = 0
  /\ ~game_over
  /\ direction = None
  /\ food \in BoardTiles
  /\ food # snake_head

\* C12 (as stated): a restart request (the space key, the only caller of
\* _reset_game after construction) in any state leaves a fresh game.
C12_RestartInAnyState ==
  [][HandleKeypress("space") => FreshGame']_vars

\* C12 (amended): a restart request takes effect only when game_over is
\* true; there it always succeeds and replaces the whole state by a fresh
\* one (head-only snake on the start tile, score 0, game_over false,
\* direction unset, food on a board tile off the snake); while game_over is
\* false the request changes no field.
C12_RestartOnlyWhenGameOver ==
  /\ [](game_over => ENABLED HandleKeypress("space"))
  /\ [][HandleKeypress("space")
          => IF game_over THEN FreshGame' ELSE UNCHANGED game_state]_vars

\* a restart has just replaced the state of a finished game
C12_Witness == event = "restart" /\ FreshGame

\* the tile next to p in direction d
OneTileFrom(p, d) ==
  CASE d = "UP" -> <<p[1], p[2] - TILE_SIZE>>
    [] d = "DOWN" -> <<p[1], p[2] + TILE_SIZE>>
    [] d = "LEFT" -> <<p[1] - TILE_SIZE, p[2]>>
    [] d = "RIGHT" -> <<p[1] + TILE_SIZE, p[2]>>

\* a fresh game in which a direction request has been accepted and no tick
\* has moved the snake yet
FirstRequestAccepted ==
  /\ pc = "mainloop"
  /\ event = "key"
  /\ snake_head = StartHead
  /\ snake_body = <<>>
  /\ score = 0
  /\ ~game_over
  /\ direction \in Directions

\* C13 (as stated): from a fresh game, wherever the food is, an accepted
\* request for d followed by one tick leaves the head one tile from the start
\* in direction d, score 0 and game_over false.
C13_FirstMove ==
  [][(FirstRequestAccepted /\ TickStep)
       => /\ snake_head' = OneTileFrom(StartHead, direction)
          /\ score' = 0
          /\ ~game_over']_vars

\* C13 (amended): from a fresh game an accepted request for d followed by
\* one tick leaves the head one tile from the start in direction d and
\* game_over false; score is 0 unless the food was on that tile, in which
\* case the tick consumes it and score is 1.
C13_FirstMoveMayEat ==
  [][(FirstRequestAccepted /\ TickStep)
       => /\ snake_head' = OneTileFrom(StartHead, direction)
          /\ ~game_over'
          /\ score' = IF food = OneTileFrom(StartHead, direction) THEN 1 ELSE 0]_vars

\* the first tick after a request for RIGHT has moved the head one tile right
C13_Witness ==
  /\ event = "timer"
  /\ direction = "RIGHT"
  /\ snake_head = <<StartHead[1] + TILE_SIZE, StartHead[2]>>
  /\ snake_body = <<>>
  /\ score = 0
  /\ ~game_over

\* COLS, ROWS or TILE_SIZE is not positive
Misconfigured ==
  config.COLS <= 0 \/ config.ROWS <= 0 \/ config.TILE_SIZE <= 0

\* C14: construction with a misconfigured board ends in an error before the
\* main loop is entered: it neither starts a game nor hangs.
C14_MisconfigurationFailsFast ==
  (Misconfigured /\ pc # "construct") => pc \in {"TclError", "ValueError"}

\* C15: on every tick that moves the snake, after the body shift the first
\* body segment is at the head's position before the tick and every other
\* body segment i is at the position segment i-1 had before the tick.
C15_BodyFollowsInLockStep ==
  [][(TickStep /\ ~game_over /\ direction \in Directions)
       => \A i \in 1..Len(snake_body) :
            snake_body'[i] = IF i = 1 THEN snake_head ELSE snake_body[i - 1]]_vars

\* a snake with three body segments has moved without eating: the segments
\* trail the head
C15_Witness ==
  /\ event = "timer"
  /\ ~game_over
  /\ Len(snake_body) = 3
  /\ snake_head \notin Range(snake_body)
  /\ NoDuplicates(snake_body)

\* C16: a tick that ends with game_over true leaves score, the number of
\* body segments and the food position as they were before the tick.
C16_NoPointOnFatalTick ==
  [][(TickStep /\ ~game_over /\ game_over')
       => /\ score' = score
          /\ Len(snake_body') = Len(snake_body)
          /\ food' = food]_vars

\* a tick has ended a game with points on a self collision
C16_Witness ==
  /\ event = "timer"
  /\ game_over
  /\ score >= 3
  /\ snake_head \in Range(snake_body)

\* C17: game_over changes from false to true only in a tick of a moving
\* snake whose moved head is outside the board or on a body segment; no key
\* event, no restart, no tick with direction unset and no collision-free tick
\* sets it.
C17_GameOverOnlyByCollision ==
  [][(~game_over /\ game_over')
       => /\ TickStep
          /\ direction \in Directions
          /\ OutOfBounds(snake_head') \/ snake_head' \in Range(snake_body')]_vars

\* a tick has ended the game of a snake with a body at a wall
C17_Witness ==
  /\ event = "timer"
  /\ game_over
  /\ OutOfBounds(snake_head)
  /\ snake_body # <<>>
  /\ snake_head \notin Range(snake_body)

\* C18: in every state between two callbacks (after construction, a
\* completed tick, a key event or a restart, game over or not) the food is on
\* a board tile that is neither the head nor a body segment.
C18_FoodNeverUnderSnake == pc = "mainloop" => FoodOffSnake

\* a finished game whose snake has a body: the food is still off the snake
C18_Witness ==
  /\ pc = "mainloop"
  /\ game_over
  /\ Len(snake_body) >= 2
  /\ food \in BoardTiles
  /\ food \notin Occupied

\* C19: in every reachable state, whatever ticks, key events and restarts
\* led to it, score equals the number of body segments.
C19_ScoreIsBodyLength == score = Len(snake_body)

\* C20: once the player has stopped steering a living, moving snake and the
\* timer keeps firing, game_over eventually becomes true.
C20_UnsteeredSnakeDies ==
  (~steering /\ ~game_over /\ direction \in Directions) ~> game_over

====
